---- MODULE Spec2Model ----
(***************************************************************************)
(* Doorbell Repeater (MarcFinns 2024): the single-threaded event loop that *)
(* multiplexes MP3 playback of /ringtone.mp3, the chunked upload of that   *)
(* file and the WiFi configuration portal.                                 *)
(*                                                                         *)
(* Two firmware variants are modelled side by side:                        *)
(*   variant = "ptr"    src/DoorBellRepeater.ino : mp3, file, out are      *)
(*                      pointers, the file source is new'ed by every ring  *)
(*                      and deleted by the teardown code;                  *)
(*   variant = "static" src/unnamed/part_000 : mp3, file, out are static   *)
(*                      instances, the one file source is re-opened, and   *)
(*                      LED_BLUE shows playback.                           *)
(*                                                                         *)
(* The libraries (ESP8266Audio, LittleFS, ESP8266WebServer, WiFiManager)   *)
(* are outside the repository; their calls are modelled at the call sites  *)
(* by the outcomes they can produce, chosen nondeterministically:          *)
(*   - LittleFS.open(name, "w") succeeds or fails;                         *)
(*   - AudioFileSourceLittleFS opens for read iff the file exists, and     *)
(*     remembers the size it found; getSize()/getPos() of a closed source  *)
(*     return 0;                                                           *)
(*   - AudioGeneratorMP3::begin fails on a source that is not open and may *)
(*     fail on an open one (buffer allocation, output begin);              *)
(*   - AudioGeneratorMP3::loop consumes 0 or more bytes, never past the    *)
(*     end, and may end the decoding by itself, through stop() (which      *)
(*     closes the source) or by clearing its running flag only;            *)
(*   - the web server delivers at most one command or upload event per     *)
(*     handleClient() call, upload events in the order START, WRITE*, then *)
(*     END or ABORTED.                                                     *)
(***************************************************************************)
EXTENDS Integers, Sequences, FiniteSets, TLC

\* ---------------------------------------------------------------- bounds
\* longest ringtone / transfer, in bytes
MaxLen == 2
\* number of heap slots for file-source objects ("ptr" variant)
MaxObj == 2

\* the byte values a ringtone is made of
Bytes == {0, 1}
Ids == 1..MaxObj

\* all byte strings of length lo..hi
SeqsOf(lo, hi) == UNION {[1..n -> Bytes] : n \in lo..hi}

\* ---------------------------------------------------------------- state
VARIABLES
  variant,       \* which firmware: "ptr" or "static"
  pc,            \* position of the single thread of control inside loop()
  req,           \* command handled by the current handleClient() call
  replied,       \* httpServer.send() was called for req
  fsExists,      \* LittleFS.exists(RINGTONE_NAME)
  fsData,        \* content of /ringtone.mp3
  fsUploadFile,  \* the upload File handle is valid (operator bool)
  upload,        \* HTTPUpload: status and totalSize
  sent,          \* bytes of the transfer delivered since UPLOAD_FILE_START
  mp3,           \* AudioGeneratorMP3: running flag and bound source
  file,          \* AudioFileSource: pointer (0 = nullptr) / the static instance
  heap,          \* file-source objects
  led_red,       \* PORTAL_LED_PIN / LED_RED_PIN lit
  led_blue       \* LED_BLUE_PIN lit ("static" variant only)

vars == <<variant, pc, req, replied, fsExists, fsData, fsUploadFile, upload,
          sent, mp3, file, heap, led_red, led_blue>>

storeVars == <<fsExists, fsData>>
uploadVars == <<fsUploadFile, upload, sent>>
playVars == <<mp3, file, heap, led_blue>>

\* a file-source object that does not exist / is closed
NoSource == [alloc |-> FALSE, open |-> FALSE, pos |-> 0, size |-> 0]

\* the Playback Controller's state as one value
PB == [mp3 |-> mp3, file |-> file, heap |-> heap, led_blue |-> led_blue]

SetPB(p) ==
  /\ mp3' = p.mp3
  /\ file' = p.file
  /\ heap' = p.heap
  /\ led_blue' = p.led_blue

\* ------------------------------------------------- library calls (playback)
\* new AudioFileSourceLittleFS: the lowest free heap slot
FreeIds(h) == {i \in Ids : ~h[i].alloc}
NewId(h) == CHOOSE i \in FreeIds(h) : \A j \in FreeIds(h) : i <= j

\* AudioFileSourceLittleFS(RINGTONE_NAME) / file.open(RINGTONE_NAME):
\* f = LittleFS.open(name, "r"); the handle is valid iff the file exists
OpenSource(h, id, isNew) ==
  [h EXCEPT ![id] = [alloc |-> isNew,
                     open  |-> fsExists,
                     pos   |-> 0,
                     size  |-> IF fsExists THEN Len(fsData) ELSE 0]]

\* file->close()
CloseSource(h, id) ==
  IF id \in Ids
  THEN [h EXCEPT ![id] = [@ EXCEPT !.open = FALSE, !.pos = 0, !.size = 0]]
  ELSE h

\* delete file
DeleteSource(h, id) == IF id \in Ids THEN [h EXCEPT ![id] = NoSource] ELSE h

\* file->getSize(), file->getPos(): 0 when the handle is not valid
getSize(h, id) == IF id \in Ids /\ h[id].open THEN h[id].size ELSE 0
getPos(h, id) == IF id \in Ids /\ h[id].open THEN h[id].pos ELSE 0

\* mp3->isRunning()
isRunning(p) == p.mp3.running

\* mp3->stop(): running = false and the bound source is closed
Stop(p) ==
  [p EXCEPT !.mp3.running = FALSE, !.heap = CloseSource(p.heap, p.mp3.file)]

\* mp3->begin(file, out): binds the source; fails when it is not open, and
\* may fail (ok = FALSE) when it is
Begin(p, id, ok) ==
  [p EXCEPT !.mp3 = [running |-> (p.mp3.running \/ (p.heap[id].open /\ ok)),
                     file    |-> id]]

\* ------------------------------------------------------ doRing, both variants
\* src/DoorBellRepeater.ino 199-201: file = new ...; mp3->begin(file, out)
RingIdlePtr(p, ok) ==
  LET id == NewId(p.heap)
      q  == [p EXCEPT !.heap = OpenSource(p.heap, id, TRUE), !.file = id]
  IN  Begin(q, id, ok)

\* a restart that forgets to release the previous source
RingRestartPtr_leak(p, ok) ==
  LET a == Stop(p)
      id == NewId(a.heap)
      c == [a EXCEPT !.heap = OpenSource(a.heap, id, TRUE), !.file = id]
  IN  Begin(c, id, ok)

\* src/DoorBellRepeater.ino 207-214: stop, close, delete, then new and begin
RingRestartPtr(p, ok) ==
  LET a == Stop(p)
      b == [a EXCEPT !.heap = DeleteSource(CloseSource(a.heap, a.file), a.file),
                     !.file = 0]
      id == NewId(b.heap)
      c == [b EXCEPT !.heap = OpenSource(b.heap, id, TRUE), !.file = id]
  IN  Begin(c, id, ok)

\* src/unnamed/part_000 229-234: LED on, file.open, mp3.begin
RingIdleStatic(p, ok) ==
  LET q == [p EXCEPT !.led_blue = TRUE,
                     !.heap = OpenSource(p.heap, p.file, FALSE)]
  IN  Begin(q, q.file, ok)

\* src/unnamed/part_000 239-243: stop, close, file.open, mp3.begin
RingRestartStatic(p, ok) ==
  LET a == Stop(p)
      b == [a EXCEPT !.heap = CloseSource(a.heap, a.file)]
      c == [b EXCEPT !.heap = OpenSource(b.heap, b.file, FALSE)]
  IN  Begin(c, c.file, ok)

RingIdle(p, ok) ==
  IF variant = "ptr" THEN RingIdlePtr(p, ok) ELSE RingIdleStatic(p, ok)

RingRestart(p, ok) ==
  IF variant = "ptr" THEN RingRestartPtr(p, ok) ELSE RingRestartStatic(p, ok)

\* the body of doRing after the acknowledgment
RingBody(p, ok) ==
  IF ~isRunning(p) THEN RingIdle(p, ok) ELSE RingRestart(p, ok)

\* ---------------------------------------------------- loop(): end of file
\* a teardown that releases the source and leaves the decoder running
TeardownPtr_noStop(p) ==
  [p EXCEPT !.heap = DeleteSource(CloseSource(p.heap, p.file), p.file),
            !.file = 0]

\* src/DoorBellRepeater.ino 346-349: stop, close, delete, file = nullptr
TeardownPtr(p) ==
  LET a == Stop(p)
  IN  [a EXCEPT !.heap = DeleteSource(CloseSource(a.heap, a.file), a.file),
                !.file = 0]

\* src/unnamed/part_000 376-380: stop, close, LED off
TeardownStatic(p) ==
  LET a == Stop(p)
  IN  [a EXCEPT !.heap = CloseSource(a.heap, a.file), !.led_blue = FALSE]

Teardown(p) == IF variant = "ptr" THEN TeardownPtr(p) ELSE TeardownStatic(p)

\* an end-of-file test that overshoots: it waits for a position past the size
AtEnd_never(p) == getPos(p.heap, p.file) > getSize(p.heap, p.file)

\* an end-of-file test that fires one byte early
AtEnd_early(p) == getSize(p.heap, p.file) - getPos(p.heap, p.file) <= 1

\* the end-of-file test of loop()
AtEnd(p) == getSize(p.heap, p.file) = getPos(p.heap, p.file)

\* mp3->loop(): k more bytes are read from the bound source, then the decoder
\* keeps running ("run"), calls stop() itself ("stop") or clears its running
\* flag ("halt")
DecoderOutcomes == {"run", "stop", "halt"}

Mp3Loop(p, k, how) ==
  LET id == p.mp3.file
      q  == [p EXCEPT !.heap[id].pos = @ + k]
  IN  CASE how = "run"  -> q
        [] how = "stop" -> Stop(q)
        [] how = "halt" -> [q EXCEPT !.mp3.running = FALSE]

\* ------------------------------------------------------------ construction
\* globals as the C++ runtime and setup() leave them
InitHeap == [i \in Ids |-> NoSource]
InitMp3 == [running |-> FALSE, file |-> 0]
InitFile == IF variant = "ptr" THEN 0 ELSE 1
InitUpload == [status |-> "NONE", totalSize |-> 0]

\* setup(): the RAM state after a (re)start; the store is what it was
setup ==
  /\ pc' = "button"
  /\ req' = "none"
  /\ replied' = FALSE
  /\ fsUploadFile' = FALSE
  /\ upload' = InitUpload
  /\ sent' = <<>>
  /\ mp3' = InitMp3
  /\ file' = InitFile
  /\ heap' = InitHeap
  /\ led_red' = FALSE
  /\ led_blue' = FALSE
  /\ UNCHANGED <<variant, fsExists, fsData>>

Init ==
  /\ variant \in {"ptr", "static"}
  /\ pc = "button"
  /\ req = "none"
  /\ replied = FALSE
  /\ fsExists \in BOOLEAN
  /\ fsData \in (IF fsExists THEN SeqsOf(1, MaxLen) ELSE {<<>>})
  /\ fsUploadFile = FALSE
  /\ upload = InitUpload
  /\ sent = <<>>
  /\ mp3 = InitMp3
  /\ file = InitFile
  /\ heap = InitHeap
  /\ led_red = FALSE
  /\ led_blue = FALSE

\* ------------------------------------------------------------------ loop()
\* configModeCallback: the portal LED is lit
configModeCallback == led_red' = TRUE

\* loop(): the button is not pressed
loop_button ==
  /\ pc = "button"
  /\ pc' = "ota"
  /\ UNCHANGED <<variant, req, replied, storeVars, uploadVars, playVars, led_red>>

\* a portal started in non-blocking mode: loop() goes on
startConfigPortal_nonBlocking ==
  /\ pc = "button"
  /\ pc' = "ota"
  /\ configModeCallback
  /\ UNCHANGED <<variant, req, replied, storeVars, uploadVars, playVars>>

\* loop(): the button is pressed; startConfigPortal() blocks
startConfigPortal ==
  /\ pc = "button"
  /\ pc' = "portal"
  /\ configModeCallback
  /\ UNCHANGED <<variant, req, replied, storeVars, uploadVars, playVars>>

\* startConfigPortal() returned true
portal_connected ==
  /\ pc = "portal"
  /\ pc' = "ota"
  /\ UNCHANGED <<variant, req, replied, storeVars, uploadVars, playVars, led_red>>

\* startConfigPortal() returned false: ESP.reset()
portal_timeout ==
  /\ pc = "portal"
  /\ setup

\* ArduinoOTA.handle()
ArduinoOTA_handle ==
  /\ pc = "ota"
  /\ pc' = "http"
  /\ UNCHANGED <<variant, req, replied, storeVars, uploadVars, playVars, led_red>>

\* ------------------------------------------------- httpServer.handleClient()
\* no request is pending
handleClient_idle ==
  /\ pc = "http"
  /\ pc' = "mp3"
  /\ req' = "none"
  /\ replied' = FALSE
  /\ UNCHANGED <<variant, storeVars, uploadVars, playVars, led_red>>

\* GET / and GET /upload: a static page is sent
staticPage ==
  /\ pc = "http"
  /\ pc' = "mp3"
  /\ req' \in {"root", "uploadForm"}
  /\ replied' = TRUE
  /\ UNCHANGED <<variant, storeVars, uploadVars, playVars, led_red>>

\* a ring that starts the playback without acknowledging
doRing_send_silent ==
  /\ pc = "http"
  /\ (variant = "ptr" /\ ~mp3.running) => FreeIds(heap) # {}
  /\ pc' = "doRing"
  /\ req' = "ring"
  /\ replied' = FALSE
  /\ UNCHANGED <<variant, storeVars, uploadVars, playVars, led_red>>

\* doRing, first part: httpServer.send(200, ..., "{Ding Dong!}")
doRing_send ==
  /\ pc = "http"
  /\ (variant = "ptr" /\ ~mp3.running) => FreeIds(heap) # {}
  /\ pc' = "doRing"
  /\ req' = "ring"
  /\ replied' = TRUE
  /\ UNCHANGED <<variant, storeVars, uploadVars, playVars, led_red>>

\* a ring handled after the playback step of the iteration
doRing_afterTick ==
  /\ pc = "doRing"
  /\ pc' = "button"
  /\ \E ok \in BOOLEAN : SetPB(RingBody(PB, ok))
  /\ UNCHANGED <<variant, req, replied, storeVars, uploadVars, led_red>>

\* doRing, second part: start or restart the playback
doRing ==
  /\ pc = "doRing"
  /\ pc' = "mp3"
  /\ \E ok \in BOOLEAN : SetPB(RingBody(PB, ok))
  /\ UNCHANGED <<variant, req, replied, storeVars, uploadVars, led_red>>

\* getSettings: the JSON report is sent
getSettings ==
  /\ pc = "http"
  /\ pc' = "mp3"
  /\ req' = "settings"
  /\ replied' = TRUE
  /\ UNCHANGED <<variant, storeVars, uploadVars, playVars, led_red>>

\* doReboot, first part: httpServer.send(200, ..., "{Rebooting}")
doReboot_send ==
  /\ pc = "http"
  /\ pc' = "doReboot"
  /\ req' = "reboot"
  /\ replied' = TRUE
  /\ UNCHANGED <<variant, storeVars, uploadVars, playVars, led_red>>

\* doReboot, second part: delay(1000); ESP.restart()
doReboot ==
  /\ pc = "doReboot"
  /\ setup

\* ------------------------------------------------------- handleFileUpload
\* the store and the write handle as one value
UP == [fsExists |-> fsExists, fsData |-> fsData, fsUploadFile |-> fsUploadFile]

SetUP(u) ==
  /\ fsExists' = u.fsExists
  /\ fsData' = u.fsData
  /\ fsUploadFile' = u.fsUploadFile

\* LittleFS.remove(RINGTONE_NAME)
Remove(u) == [u EXCEPT !.fsExists = FALSE, !.fsData = <<>>]

\* a start that removes the old file only when the new one could be opened
UploadStart_keepsOld(u, ok) ==
  IF ok
  THEN [fsExists |-> TRUE, fsData |-> <<>>, fsUploadFile |-> TRUE]
  ELSE [u EXCEPT !.fsUploadFile = FALSE]

\* a start that keeps the old file and appends to it
UploadStart_append(u, ok) ==
  IF ok
  THEN [u EXCEPT !.fsExists = TRUE, !.fsUploadFile = TRUE]
  ELSE [u EXCEPT !.fsUploadFile = FALSE]

\* UPLOAD_FILE_START: remove the old file, open a new one for writing
\* (LittleFS.open(name, "w") creates the empty file when it succeeds)
UploadStart(u, ok) ==
  LET r == IF u.fsExists THEN Remove(u) ELSE u
  IN  IF ok
      THEN [fsExists |-> TRUE, fsData |-> <<>>, fsUploadFile |-> TRUE]
      ELSE [r EXCEPT !.fsUploadFile = FALSE]

\* a write that does not test the handle
UploadWrite_unchecked(u, buf) == [u EXCEPT !.fsData = @ \o buf]

\* UPLOAD_FILE_WRITE: append the buffer when the handle is valid
UploadWrite(u, buf) ==
  IF u.fsUploadFile THEN [u EXCEPT !.fsData = @ \o buf] ELSE u

\* an end that keeps the file of a transfer of 0 bytes
UploadEnd_keepsEmpty(u, totalSize) ==
  IF u.fsUploadFile THEN [u EXCEPT !.fsUploadFile = FALSE] ELSE u

\* UPLOAD_FILE_END: close; a transfer of 0 bytes is removed
UploadEnd(u, totalSize) ==
  IF u.fsUploadFile
  THEN LET c == [u EXCEPT !.fsUploadFile = FALSE]
       IN  IF totalSize = 0 THEN Remove(c) ELSE c
  ELSE u

\* an abort that closes the handle and keeps the partial file
UploadAborted_keepsPartial(u) ==
  IF u.fsUploadFile THEN [u EXCEPT !.fsUploadFile = FALSE] ELSE u

\* UPLOAD_FILE_ABORTED: close and remove
UploadAborted(u) ==
  IF u.fsUploadFile THEN Remove([u EXCEPT !.fsUploadFile = FALSE]) ELSE u

\* the web server's upload protocol: a transfer is in progress
InTransfer == upload.status \in {"START", "WRITE"}

\* a start that also stops the player before it removes the file
handleFileUpload_START_stopsPlayer ==
  /\ pc = "http"
  /\ ~InTransfer
  /\ pc' = "mp3"
  /\ upload' = [status |-> "START", totalSize |-> 0]
  /\ sent' = <<>>
  /\ \E ok \in BOOLEAN : SetUP(UploadStart(UP, ok))
  /\ req' = "none"
  /\ replied' = FALSE
  /\ SetPB(Stop(PB))
  /\ UNCHANGED <<variant, led_red>>

handleFileUpload_START ==
  /\ pc = "http"
  /\ ~InTransfer
  /\ pc' = "mp3"
  /\ upload' = [status |-> "START", totalSize |-> 0]
  /\ sent' = <<>>
  /\ \E ok \in BOOLEAN : SetUP(UploadStart(UP, ok))
  /\ req' = "none"
  /\ replied' = FALSE
  /\ UNCHANGED <<variant, playVars, led_red>>

handleFileUpload_WRITE ==
  /\ pc = "http"
  /\ InTransfer
  /\ pc' = "mp3"
  /\ \E buf \in SeqsOf(0, MaxLen - Len(sent)) :
       /\ upload' = [status |-> "WRITE",
                     totalSize |-> upload.totalSize + Len(buf)]
       /\ sent' = sent \o buf
       /\ SetUP(UploadWrite(UP, buf))
  /\ req' = "none"
  /\ replied' = FALSE
  /\ UNCHANGED <<variant, playVars, led_red>>

\* the last event of a transfer, then the POST handler's
\* httpServer.send(200, "text/plain", "File Uploaded")
handleFileUpload_END ==
  /\ pc = "http"
  /\ InTransfer
  /\ pc' = "mp3"
  /\ upload' = [upload EXCEPT !.status = "END"]
  /\ SetUP(UploadEnd(UP, upload.totalSize))
  /\ req' = "upload"
  /\ replied' = TRUE
  /\ UNCHANGED <<variant, sent, playVars, led_red>>

\* the client went away: no handler is run after the upload callback
handleFileUpload_ABORTED ==
  /\ pc = "http"
  /\ InTransfer
  /\ pc' = "mp3"
  /\ upload' = [upload EXCEPT !.status = "ABORTED"]
  /\ SetUP(UploadAborted(UP))
  /\ req' = "none"
  /\ replied' = FALSE
  /\ UNCHANGED <<variant, sent, playVars, led_red>>

\* a playback step that runs the end-of-file test without a running decoder
loop_mp3_idle_checks ==
  /\ pc = "mp3"
  /\ ~isRunning(PB)
  /\ pc' = "button"
  /\ IF AtEnd(PB) THEN SetPB(Teardown(PB)) ELSE UNCHANGED playVars
  /\ UNCHANGED <<variant, req, replied, storeVars, uploadVars, led_red>>

\* ------------------------------------------------------ loop(): MP3 player
\* mp3->isRunning() is false: nothing is done
loop_mp3_idle ==
  /\ pc = "mp3"
  /\ ~isRunning(PB)
  /\ pc' = "button"
  /\ UNCHANGED <<variant, req, replied, storeVars, uploadVars, playVars, led_red>>

\* mp3->loop()
mp3_loop ==
  /\ pc = "mp3"
  /\ isRunning(PB)
  /\ pc' = "eof"
  /\ \E k \in 0..(getSize(heap, mp3.file) - getPos(heap, mp3.file)),
        how \in DecoderOutcomes : SetPB(Mp3Loop(PB, k, how))
  /\ UNCHANGED <<variant, req, replied, storeVars, uploadVars, led_red>>

\* an end-of-file test whose teardown also removes the file it played
loop_eof_removesAsset ==
  /\ pc = "eof"
  /\ pc' = "button"
  /\ IF AtEnd(PB)
     THEN SetPB(Teardown(PB)) /\ fsExists' = FALSE /\ fsData' = <<>>
     ELSE UNCHANGED <<playVars, storeVars>>
  /\ UNCHANGED <<variant, req, replied, uploadVars, led_red>>

\* if (file->getSize() == file->getPos()) { teardown }
loop_eof ==
  /\ pc = "eof"
  /\ pc' = "button"
  /\ IF AtEnd(PB) THEN SetPB(Teardown(PB)) ELSE UNCHANGED playVars
  /\ UNCHANGED <<variant, req, replied, storeVars, uploadVars, led_red>>

\* ----------------------------------------------------------- specification
Next ==
  \/ loop_button
  \/ startConfigPortal
  \/ portal_connected
  \/ portal_timeout
  \/ ArduinoOTA_handle
  \/ handleClient_idle
  \/ staticPage
  \/ doRing_send
  \/ doRing
  \/ getSettings
  \/ doReboot_send
  \/ doReboot
  \/ handleFileUpload_START
  \/ handleFileUpload_WRITE
  \/ handleFileUpload_END
  \/ handleFileUpload_ABORTED
  \/ loop_mp3_idle
  \/ mp3_loop
  \/ loop_eof

Spec == Init /\ [][Next]_vars

\* --------------------------------------------------------------- typing
TypeOK ==
  /\ variant \in {"ptr", "static"}
  /\ pc \in {"button", "portal", "ota", "http", "doRing", "doReboot", "mp3", "eof"}
  /\ req \in {"none", "root", "uploadForm", "ring", "settings", "reboot", "upload"}
  /\ replied \in BOOLEAN
  /\ fsExists \in BOOLEAN
  /\ fsData \in SeqsOf(0, MaxLen)
  /\ fsUploadFile \in BOOLEAN
  /\ upload.status \in {"NONE", "START", "WRITE", "END", "ABORTED"}
  /\ upload.totalSize \in 0..MaxLen
  /\ sent \in SeqsOf(0, MaxLen)
  /\ mp3.running \in BOOLEAN
  /\ mp3.file \in 0..MaxObj
  /\ file \in 0..MaxObj
  /\ \A i \in Ids : heap[i].pos <= heap[i].size /\ heap[i].size <= MaxLen
  /\ led_red \in BOOLEAN
  /\ led_blue \in BOOLEAN

\* ================================================================ claims
\* the file sources whose handle is open
OpenSources(h) == {i \in Ids : h[i].open}
\* the file sources allocated with new and not deleted
AllocatedSources(h) == {i \in Ids : h[i].alloc}

\* C1: at most one file source is open at any instant, whatever the rings,
\* ticks and decoder outcomes were.
C1_NoDoubleOpen == Cardinality(OpenSources(heap)) <= 1

\* C2: once the transfer has ended (Completed) or was aborted, the store
\* holds no zero-length asset.
C2_StoreInvariant ==
  upload.status \in {"END", "ABORTED"} => ~(fsExists /\ Len(fsData) = 0)

\* a transfer of 0 bytes has completed and its empty file is gone
C2_Witness ==
  /\ upload.status = "END"
  /\ upload.totalSize = 0
  /\ req = "upload"
  /\ ~fsExists
  /\ ~fsUploadFile

\* C3: after an abort during a transfer the store holds no asset and the
\* write handle is closed.
C3_AbortLeavesNoAsset ==
  upload.status = "ABORTED" => (~fsExists /\ ~fsUploadFile)

\* a transfer was aborted after bytes had been delivered
C3_Witness ==
  /\ upload.status = "ABORTED"
  /\ Len(sent) > 0
  /\ ~fsExists
  /\ ~fsUploadFile

\* a ring is being served while a session is active
RestartStep == pc = "doRing" /\ mp3.running

\* the restart released the previous session's source: what is open after it
\* is the new source or was open before and is not the previous one
PriorReleased ==
  OpenSources(heap') \subseteq ((OpenSources(heap) \ {file}) \cup {file'})

\* C4 (as stated): a ring during an active session always leaves one session
\* whose new file source is open on the asset at position 0, with the
\* previous source released (whether the decoder's begin then succeeds is
\* left aside).
C4_RestartAlwaysOneSession ==
  [][RestartStep =>
       /\ \E ok \in BOOLEAN : PB' = RingIdle(Teardown(PB), ok)
       /\ file' \in Ids /\ heap'[file'].open /\ heap'[file'].pos = 0
       /\ PriorReleased]_vars

\* C4 (amended): a ring during an active session gives the state that
\* teardown followed by a ring from idle gives; the previous source is
\* released; a session is active afterwards only if the asset is present,
\* and then it is bound to the one new source, open at position 0 with the
\* asset's size.
C4_RestartEquivalence ==
  [][RestartStep =>
       /\ \E ok \in BOOLEAN : PB' = RingIdle(Teardown(PB), ok)
       /\ PriorReleased
       /\ mp3'.running =>
            /\ fsExists
            /\ mp3'.file = file' /\ file' \in Ids
            /\ heap'[file'].open /\ heap'[file'].pos = 0
            /\ heap'[file'].size = Len(fsData)]_vars

\* a ring has been acknowledged and is about to restart a session that has
\* read part of the asset
C4_Witness ==
  /\ pc = "doRing"
  /\ replied
  /\ mp3.running
  /\ file \in Ids /\ heap[file].open
  /\ 0 < heap[file].pos /\ heap[file].pos < heap[file].size

\* the session's source was closed and released by the step
TornDown ==
  /\ ~mp3'.running
  /\ IF variant = "ptr"
     THEN file' = 0 /\ heap'[file] = NoSource
     ELSE ~heap'[file'].open /\ ~led_blue'

C6_DropSafe ==
  [][(pc = "http" /\ upload'.status = "WRITE" /\ ~fsUploadFile) =>
       UNCHANGED <<fsExists, fsData, fsUploadFile, mp3, file, heap,
                   led_blue, led_red>>]_vars

\* bytes were delivered after a failed open and nothing was stored
C6_Witness ==
  /\ upload.status = "WRITE"
  /\ upload.totalSize > 0
  /\ ~fsUploadFile
  /\ ~fsExists

\* C7: the playback step of loop() changes nothing when the decoder is not
\* running.
C7_TickNoOp ==
  [][(pc = "mp3" /\ ~mp3.running) =>
       UNCHANGED <<variant, req, replied, fsExists, fsData, fsUploadFile,
                   upload, sent, mp3, file, heap, led_red, led_blue>>]_vars

\* the playback step is reached with no session, a write handle open and a
\* source left open by a decoder that stopped
C7_Witness ==
  /\ pc = "mp3"
  /\ ~mp3.running
  /\ fsUploadFile
  /\ OpenSources(heap) # {}

\* C8: with the asset absent a ring creates no session and leaves no file
\* source open or allocated.
C8_RingWithoutAsset ==
  [][(pc = "doRing" /\ ~fsExists) =>
       /\ ~mp3'.running
       /\ OpenSources(heap') = {}
       /\ AllocatedSources(heap') = {}]_vars

\* C9: every handler that ends has sent its response; ring sends it before
\* it touches the playback state, reboot before the restart.
C9_AlwaysAcknowledged ==
  [][/\ (pc = "mp3" /\ req # "none") => replied
     /\ pc = "doRing" => (req = "ring" /\ replied)
     /\ pc = "doReboot" => (req = "reboot" /\ replied)
     /\ (pc = "http" /\ pc' = "doRing") => UNCHANGED playVars
     /\ (pc = "http" /\ pc' = "mp3" /\ upload'.status = "END"
           /\ upload.status # "END") => (req' = "upload" /\ replied')]_vars

\* the submit of a transfer whose open failed has been answered
C9_Witness ==
  /\ pc = "mp3"
  /\ req = "upload"
  /\ replied
  /\ upload.totalSize > 0
  /\ ~fsExists

\* C10: the end of a transfer whose open succeeded and whose total is not 0
\* leaves the asset with exactly the bytes delivered, in order.
C10_UploadStoresPayload ==
  [][(pc = "http" /\ InTransfer /\ upload'.status = "END"
        /\ fsUploadFile /\ upload.totalSize # 0) =>
       (fsExists' /\ fsData' = sent /\ ~fsUploadFile')]_vars

\* a transfer of two different bytes has completed and is what is stored
C10_Witness ==
  /\ upload.status = "END"
  /\ fsExists
  /\ fsData = sent
  /\ Len(fsData) >= 2
  /\ fsData[1] # fsData[2]

\* a handler or the playback step has returned
AfterHandler == pc \in {"mp3", "button"}

\* C11: after a handler or tick returns, no file source is open or allocated
\* unless the decoder is running, and the write handle is open only during
\* a transfer.
C11_NoDanglingResource ==
  AfterHandler =>
    /\ ~mp3.running =>
         (OpenSources(heap) = {} /\ AllocatedSources(heap) = {})
    /\ fsUploadFile => InTransfer

\* C12: whenever the decoder is running, the source bound to it is the one
\* file points to, is not null, is open and (pointer variant) not deleted.
C12_RunningHasSource ==
  mp3.running =>
    /\ file \in Ids
    /\ mp3.file = file
    /\ heap[file].open
    /\ variant = "ptr" => heap[file].alloc

\* a session keeps playing a source whose asset was removed under it, with
\* another source object already released
C12_Witness ==
  /\ mp3.running
  /\ file \in Ids /\ heap[file].open
  /\ heap[file].pos > 0
  /\ ~fsExists
  /\ pc = "eof"

\* C13: at the end of every loop iteration LED_BLUE is lit iff the decoder
\* is running (the variant that has a playing indicator).
C13_IndicatorMatchesSession ==
  (variant = "static" /\ pc = "button") => (led_blue <=> mp3.running)

\* C14: a ring served during a transfer (the asset is empty or partial)
\* creates no playback session.
C14_NoSessionOnPartialAsset ==
  [][(pc = "doRing" /\ InTransfer) => ~mp3'.running]_vars

\* an upload event is being delivered
UploadEventStep ==
  /\ pc = "http"
  /\ pc' = "mp3"
  /\ \/ upload' # upload
     \/ sent' # sent
     \/ fsUploadFile' # fsUploadFile
     \/ fsExists' # fsExists
     \/ fsData' # fsData

\* the ring body or one of the two parts of the playback step is running
PlaybackStep == pc \in {"doRing", "mp3", "eof"}

\* C15: no upload event changes the decoder, the file pointer, the file
\* sources or the playing LED; ring and tick never change the write handle
\* (nor the transfer's state).
C15_ControllersIndependent ==
  [][/\ UploadEventStep => UNCHANGED <<mp3, file, heap, led_blue>>
     /\ PlaybackStep => UNCHANGED <<fsUploadFile, upload, sent>>]_vars

\* an upload start has removed the asset under a session that goes on, and
\* the new transfer is receiving
C15_Witness ==
  /\ mp3.running
  /\ file \in Ids /\ heap[file].open /\ heap[file].size > 0
  /\ upload.status = "WRITE"
  /\ fsUploadFile
  /\ Len(fsData) > 0
  /\ fsData # <<>> /\ heap[file].size # Len(fsData)

\* ------------------------------------------------ specification with fairness
\* a tick in which the decoder reads input and keeps running
Consume ==
  /\ mp3_loop
  /\ mp3'.running
  /\ heap'[file].pos > heap[file].pos

\* loop() is called again and again by the core, the portal returns, and
\* (C16's premise) a running decoder does not stall for ever
LiveSpec == Init /\ [][Next]_vars /\ WF_vars(Next) /\ SF_vars(Consume)

SessionActive == mp3.running

\* the decoder is stopped, the session's source closed, the LED off
SessionIdle ==
  /\ ~mp3.running
  /\ file \in Ids => ~heap[file].open
  /\ ~led_blue

\* the decoder cleared its running flag by itself, leaving its source open
DecoderHalted == ~mp3.running /\ file \in Ids /\ heap[file].open

\* C16: an active session becomes idle eventually, unless a further ring
\* arrives or the decoder gives up by itself.
C16_SessionEnds ==
  SessionActive ~> (SessionIdle \/ pc = "doRing" \/ DecoderHalted)

\* the end-of-file test has just ended a session started by the ring of this
\* same iteration: decoder stopped, source closed, LED off, asset intact
C16_Witness ==
  /\ variant = "static"
  /\ pc = "button"
  /\ req = "ring"
  /\ fsExists
  /\ SessionIdle

\* C17: a session whose decoder stopped by itself before the end of the
\* asset (it had read input; its source is still open) is torn down by the
\* next tick.
C17_StoppedSessionTornDown ==
  [][(pc = "mp3" /\ ~mp3.running /\ file \in Ids /\ heap[file].open
        /\ heap[file].pos > 0 /\ heap[file].pos < heap[file].size) =>
       ~heap'[file].open]_vars

\* C18: the steps of loop() run in the order button check, OTA service,
\* dispatch, playback step; the playback step is entered once per iteration;
\* a session started by doRing is ticked right after the handler returns.
C18_LoopOrder ==
  [][/\ pc = "button" => pc' \in {"ota", "portal"}
     /\ pc = "ota" => pc' = "http"
     /\ pc = "http" => pc' \in {"mp3", "doRing", "doReboot"}
     /\ pc = "doRing" => pc' = "mp3"
     /\ pc = "mp3" => pc' \in {"eof", "button"}
     /\ pc = "eof" => pc' = "button"
     /\ pc' = "mp3" => pc \in {"http", "doRing"}
     /\ (pc = "mp3" /\ mp3.running) =>
          (pc' = "eof" /\ \E k \in 0..MaxLen, how \in DecoderOutcomes :
                             PB' = Mp3Loop(PB, k, how))]_vars

\* the session created by the ring of this iteration has had its first tick
C18_Witness ==
  /\ pc = "eof"
  /\ req = "ring"
  /\ mp3.running
  /\ file \in Ids /\ heap[file].pos > 0

\* C19: the step that lights the portal LED enters the blocking portal, and
\* while it is open nothing runs: the only steps are its return (everything
\* unchanged) or the reset.
C19_PortalBlocksLoop ==
  [][/\ (pc = "button" /\ ~led_red /\ led_red') => pc' = "portal"
     /\ pc = "portal" =>
          \/ /\ pc' = "ota"
             /\ UNCHANGED <<variant, req, replied, fsExists, fsData,
                            fsUploadFile, upload, sent, mp3, file, heap,
                            led_red, led_blue>>
          \/ /\ pc' = "button"
             /\ ~mp3'.running /\ ~fsUploadFile' /\ upload' = InitUpload
             /\ heap' = InitHeap /\ UNCHANGED <<fsExists, fsData>>]_vars

\* the portal is open while a session is playing and a transfer is receiving
C19_Witness ==
  /\ pc = "portal"
  /\ mp3.running
  /\ file \in Ids /\ heap[file].pos < heap[file].size
  /\ InTransfer

\* C20: the portal LED is lit exactly while the portal is open.
C20_IndicatorShowsPortal == led_red <=> pc = "portal"

\* the last upload event delivered was an end or an abort
TransferOver == upload.status \in {"END", "ABORTED"}

\* what a start leaves when nothing of an earlier transfer is left: the new
\* empty file with its write handle, or, when the open failed, no file and
\* no handle
FreshStart ==
  {[fsExists |-> TRUE, fsData |-> <<>>, fsUploadFile |-> TRUE],
   [fsExists |-> FALSE, fsData |-> <<>>, fsUploadFile |-> FALSE]}

\* C21: after every end or abort event no transfer is in progress and the
\* write handle is closed, whatever happened in the transfer; the following
\* upload event can only be a start, and it begins a transfer with no bytes
\* counted or delivered whose store and handle are those of a start on an
\* empty controller, whatever the previous transfer left.
C21_TransfersIndependent ==
  [][/\ upload'.status \in {"END", "ABORTED"} =>
          (~fsUploadFile' /\ ~InTransfer')
     /\ (TransferOver /\ upload' # upload) =>
          upload' \in {[status |-> "START", totalSize |-> 0], InitUpload}
     /\ (pc = "http" /\ TransferOver /\ upload'.status = "START") =>
          /\ sent' = <<>>
          /\ UP' \in FreshStart]_vars

\* the dispatcher is about to deliver the next event after a transfer whose
\* open failed, whose bytes were dropped and whose end was answered
C21_Witness ==
  /\ pc = "http"
  /\ upload.status = "END"
  /\ upload.totalSize > 0
  /\ Len(sent) > 0
  /\ ~fsExists
  /\ ~fsUploadFile

\* the step changes the stored asset
StoreChanged == fsExists' # fsExists \/ fsData' # fsData

\* the step is the delivery of an upload event to handleFileUpload
StartEvent == pc = "http" /\ ~InTransfer /\ upload'.status = "START"
ChunkEvent ==
  pc = "http" /\ InTransfer /\ upload'.status = "WRITE" /\ upload' # upload
EndEvent == pc = "http" /\ InTransfer /\ upload'.status = "END"
AbortEvent == pc = "http" /\ InTransfer /\ upload'.status = "ABORTED"

\* the step belongs to a ring, to the playback step or to the settings report
PlaybackOrReport ==
  \/ pc \in {"doRing", "mp3", "eof"}
  \/ pc = "http" /\ req' \in {"ring", "settings"}

====
